---- MODULE Spec2Model ----
(***************************************************************************)
(* A model of the tqs client library (tqs.go) talking to the remote queue  *)
(* service.  The client operations Create, Statistics, Exists, Put, Get,   *)
(* GetValue and Message.Delete are translated from tqs.go.  The service    *)
(* (queues, messages, leases) is not part of the library; it is modelled   *)
(* from the REST contract the library's documentation describes.           *)
(***************************************************************************)
EXTENDS Integers, Sequences, FiniteSets, TLC

VARIABLES
    qs,      \* the Queue handles the caller built with NewQueue
    srv,     \* the service: existing queues, messages, lease counter
    held,    \* the Message values Get has handed to the caller with a nil error
             \* (the zero Message, which any caller can write down, aside)
    last,    \* the call that has just completed: inputs, request, response,
             \* results; op = "none" once the caller has taken the results
    hist     \* history: what the caller passed to Put, which Creates succeeded,
             \* which leases a Delete has addressed, what a deleting Get took

vars == <<qs, srv, held, last, hist>>

-----------------------------------------------------------------------------
(* Bounds of the model *)

\* messages the service can ever accept
MaxMsgs == 1
\* leases the service can ever hand out
MaxLeases == 2

-----------------------------------------------------------------------------
(* Inputs *)

Endpoint == "http://h"
\* an endpoint http.NewRequest cannot parse (invalid escape in the host)
BadEndpoint == "http://h%zz"
Names == {"a"}
\* the handles the caller builds: one on the service's endpoint with a token,
\* one on the unparsable endpoint without
Handles == {"good", "bad"}
\* body texts: one that is valid JSON and one that is not
Texts == {"{}", "x"}
Types == {"t"}
\* Wait durations in nanoseconds (time.Duration): none, 0.5 s, 1.5 s
Second == 1000000000
Waits == {0, 500000000, 1500000000}

NilOptions == [nil |-> TRUE, Wait |-> 0, Delete |-> FALSE, Retry |-> FALSE]
Options ==
    {NilOptions} \cup
    [nil : {FALSE}, Wait : Waits, Delete : BOOLEAN, Retry : BOOLEAN]

-----------------------------------------------------------------------------
(* Values of the library *)

Queue(endpoint, name, url, token) ==
    [Endpoint |-> endpoint, Name |-> name, url |-> url, token |-> token]

ZeroQueue == Queue("", "", "", "")

\* time.Time is carried opaquely: "" is the zero time
ZeroMessage ==
    [queue |-> ZeroQueue, BodyText |-> "", BodyType |-> "",
     CreateDate |-> "", VisibleDate |-> "", ExpireDate |-> "",
     LeaseUUID |-> "", LeaseTimeout |-> 0, LeaseDate |-> ""]

ZeroStatistics == [Visible |-> 0, Delayed |-> 0, Leased |-> 0]

Nil == [kind |-> "nil"]
LeaseNotFoundError(m) == [kind |-> "LeaseNotFound", message |-> m]
QueueNotFoundError(q) == [kind |-> "QueueNotFound", queue |-> q]
QueueEmptyError(q) == [kind |-> "QueueEmpty", queue |-> q]
QueueAlreadyExistsError(q) == [kind |-> "QueueAlreadyExists", queue |-> q]
QueueHTTPError(q, status) ==
    [kind |-> "QueueHTTPError", queue |-> q, StatusCode |-> status]
\* errors of net/http and encoding/json, opaque to the library
URLError == [kind |-> "url"]
TransportError == [kind |-> "transport"]
JSONError == [kind |-> "json"]

NewQueue(endpoint, name, token) ==
    Queue(endpoint, name, endpoint \o "/queues/" \o name, token)

-----------------------------------------------------------------------------
(* Requests *)

Digits == <<"0", "1", "2", "3", "4", "5", "6", "7", "8", "9">>

RECURSIVE Itoa(_)
Itoa(n) ==
    IF n < 0 THEN "-" \o Itoa(0 - n)
    ELSE IF n < 10 THEN Digits[n + 1]
    ELSE Itoa(n \div 10) \o Digits[(n % 10) + 1]

NoBody == [kind |-> "none"]
NoRequest ==
    [method |-> "", url |-> "", query |-> {}, header |-> {},
     Close |-> FALSE, body |-> NoBody]

\* url.Parse inside http.NewRequest: an invalid percent escape is an error
MalformedURLs ==
    {BadEndpoint \o "/queues"}
    \cup {BadEndpoint \o "/queues/" \o n : n \in Names}
    \cup {BadEndpoint \o "/queues/" \o n \o "/statistics" : n \in Names}

\* http.NewRequest(method, url, body): {req, err}
NewRequest(method, url, body) ==
    IF url \in MalformedURLs
    THEN [err |-> URLError, req |-> NoRequest]
    ELSE [err |-> Nil,
          req |-> [method |-> method, url |-> url, query |-> {},
                   header |-> {}, Close |-> FALSE, body |-> body]]

\* if token != "" { req.Header.Set("Authentication", "token "+token) }
SetAuthentication(req, token) ==
    IF token # ""
    THEN [req EXCEPT !.header = @ \cup {<<"Authentication", "token " \o token>>}]
    ELSE req

SetContentType(req) ==
    [req EXCEPT !.header = @ \cup {<<"Content-Type", "application/json">>}]

SetClose(req) == [req EXCEPT !.Close = TRUE]

\* json.Marshal(CreateQueueRequest{Name: name})
MarshalCreateQueueRequest(name) == [kind |-> "object", name |-> name]

\* MarshalPutMessageRequest with the two fields exchanged
MarshalPutMessageRequest_Swapped(bodyText, bodyType) ==
    [kind |-> "object",
     messages |-> <<[body |-> bodyType, type |-> bodyText]>>]

\* json.Marshal(PutMessageRequest{[]MessageBody{{Text, Type}}})
MarshalPutMessageRequest(bodyText, bodyType) ==
    [kind |-> "object",
     messages |-> <<[body |-> bodyText, type |-> bodyType]>>]

\* GetQuery that never asks for the delete
GetQuery_NoDelete(options) ==
    IF options.nil THEN {}
    ELSE IF options.Wait > 0
         THEN {<<"wait_time", Itoa(options.Wait \div Second)>>}
         ELSE {}

\* GetQuery that rounds the seconds of Wait up
GetQuery_RoundUp(options) ==
    IF options.nil THEN {}
    ELSE (IF options.Delete THEN {<<"delete", "true">>} ELSE {})
         \cup
         (IF options.Wait > 0
          THEN {<<"wait_time", Itoa((options.Wait + Second - 1) \div Second)>>}
          ELSE {})

\* the query Get adds when options != nil
GetQuery(options) ==
    IF options.nil THEN {}
    ELSE (IF options.Delete THEN {<<"delete", "true">>} ELSE {})
         \cup
         (IF options.Wait > 0
          THEN {<<"wait_time", Itoa(options.Wait \div Second)>>}
          ELSE {})

-----------------------------------------------------------------------------
(* The service, from the REST contract of the documentation (section 6):   *)
(* queues by name, messages free -> visible -> leased -> deleted, a lease   *)
(* that expires makes its message visible again.                            *)

MsgIds == 1..MaxMsgs

FreeMsg == [queue |-> "", body |-> "", type |-> "", state |-> "free", lease |-> ""]

ObjectBody(messages, stats) ==
    [kind |-> "object", messages |-> messages, stats |-> stats]
NoStats == [present |-> FALSE, visible |-> 0, delayed |-> 0, leased |-> 0]
\* a JSON object without the fields the library reads, such as {"error": "..."}
OtherObject == ObjectBody(<<>>, NoStats)
MalformedBody == [kind |-> "malformed", messages |-> <<>>, stats |-> NoStats]

QueueURL(n) == Endpoint \o "/queues/" \o n
LeaseUUIDOf(k) == "L" \o Itoa(k)
\* the lease timeout the service grants, in seconds
ServiceLeaseTimeout == 30

\* the messages of queue n that a Get may return
Avail(n) == {i \in MsgIds : srv.msgs[i].queue = n /\ srv.msgs[i].state = "visible"}
Leased(n) == {i \in MsgIds : srv.msgs[i].queue = n /\ srv.msgs[i].state = "leased"}
FreeIds == {i \in MsgIds : srv.msgs[i].state = "free"}

Reply(status, body, s, id) == [status |-> status, body |-> body, srv |-> s, id |-> id]

\* POST {endpoint}/queues {"name": n}
ServeCreate(n) ==
    IF n \in srv.queues
    THEN Reply(409, OtherObject, srv, 0)
    ELSE Reply(200, OtherObject, [srv EXCEPT !.queues = @ \cup {n}], 0)

\* GET {endpoint}/queues/{n}/statistics
ServeStatistics(n) ==
    Reply(200,
          ObjectBody(<<>>, [present |-> TRUE, visible |-> Cardinality(Avail(n)),
                            delayed |-> 0, leased |-> Cardinality(Leased(n))]),
          srv, 0)

\* POST {endpoint}/queues/{n} {"messages": [{body, type}]}
ServePut(n, body) ==
    LET i == CHOOSE j \in FreeIds : \A k \in FreeIds : j <= k
        w == body.messages[1]
    IN Reply(200, OtherObject,
             [srv EXCEPT !.msgs[i] = [queue |-> n, body |-> w.body, type |-> w.type,
                                      state |-> "visible", lease |-> ""]],
             i)

WireMessage(m, uuid) ==
    [body |-> m.body, type |-> m.type, create_date |-> "T", visible_date |-> "T",
     expire_date |-> "T", lease_uuid |-> uuid,
     lease_timeout |-> ServiceLeaseTimeout, lease_date |-> "T"]

\* GET {endpoint}/queues/{n}?delete=true&wait_time=s ; pick is the message the
\* service chooses among the visible ones (0 when there is none)
ServeGet(n, query, pick) ==
    IF pick = 0
    THEN Reply(200, ObjectBody(<<>>, NoStats), srv, 0)
    ELSE LET uuid == LeaseUUIDOf(srv.leases + 1)
             delete == <<"delete", "true">> \in query
         IN Reply(200,
                  ObjectBody(<<WireMessage(srv.msgs[pick], uuid)>>, NoStats),
                  [srv EXCEPT !.leases = @ + 1,
                              !.msgs[pick].state = IF delete THEN "deleted" ELSE "leased",
                              !.msgs[pick].lease = IF delete THEN "" ELSE uuid],
                  pick)

\* DELETE {endpoint}/queues/{n}/leases/{uuid}
ServeDelete(i) ==
    Reply(200, OtherObject,
          [srv EXCEPT !.msgs[i].state = "deleted", !.msgs[i].lease = ""], i)

LeaseRoute(url) ==
    {i \in MsgIds : /\ srv.msgs[i].state = "leased"
                    /\ srv.msgs[i].queue \in srv.queues
                    /\ url = QueueURL(srv.msgs[i].queue) \o "/leases/" \o srv.msgs[i].lease}

Serve(req, pick) ==
    IF req.method = "POST" /\ req.url = Endpoint \o "/queues"
    THEN ServeCreate(req.body.name)
    ELSE IF req.method = "GET" /\ \E n \in srv.queues : req.url = QueueURL(n) \o "/statistics"
    THEN ServeStatistics(CHOOSE n \in srv.queues : req.url = QueueURL(n) \o "/statistics")
    ELSE IF req.method = "POST" /\ \E n \in srv.queues : req.url = QueueURL(n)
    THEN ServePut(CHOOSE n \in srv.queues : req.url = QueueURL(n), req.body)
    ELSE IF req.method = "GET" /\ \E n \in srv.queues : req.url = QueueURL(n)
    THEN ServeGet(CHOOSE n \in srv.queues : req.url = QueueURL(n), req.query, pick)
    ELSE IF req.method = "DELETE" /\ LeaseRoute(req.url) # {}
    THEN ServeDelete(CHOOSE i \in LeaseRoute(req.url) : TRUE)
    ELSE Reply(404, OtherObject, srv, 0)

-----------------------------------------------------------------------------
(* The exchange: net/http between the library and the service *)

\* what happens to one request: the service answers by its contract or with
\* another status and body, and the network delivers, refuses the request,
\* loses the response, or breaks while the body is read
Contract(net) == [net |-> net, status |-> 0, body |-> "contract"]
\* for the calls that read the response body (Statistics, Exists, Get, GetValue)
Outcomes ==
    {Contract(net) : net \in {"ok", "refused", "lost", "readfail"}}
    \cup [net : {"ok"}, status : {500}, body : {"other", "malformed", "two"}]
    \cup [net : {"ok"}, status : {201}, body : {"other"}]
\* for the calls that only look at the status (Create, Put, Delete)
StatusOutcomes ==
    {Contract(net) : net \in {"ok", "refused", "lost"}}
    \cup [net : {"ok"}, status : {201, 404, 409, 500}, body : {"other"}]

OffBody(kind) ==
    CASE kind = "malformed" -> MalformedBody
      [] kind = "two" ->
            ObjectBody(<<WireMessage(FreeMsg, "L8"), WireMessage(FreeMsg, "L9")>>, NoStats)
      [] OTHER -> OtherObject

\* a URL without scheme and host (the url of the zero Queue) cannot be sent
UnsupportedURLs == {"/leases/"}

NotSent(err) ==
    [err |-> err, sent |-> 0, status |-> 0, body |-> NoBody,
     readErr |-> FALSE, srv |-> srv, id |-> 0]

\* client.Do(req) when the service's answer to req is r
Deliver(req, x, r) ==
    IF req.url \in UnsupportedURLs
    THEN NotSent(TransportError)
    ELSE IF x.net = "refused"
    THEN [err |-> TransportError, sent |-> 1, status |-> 0, body |-> NoBody,
          readErr |-> FALSE, srv |-> srv, id |-> 0]
    ELSE IF x.net = "lost"
    THEN [err |-> TransportError, sent |-> 1, status |-> 0, body |-> NoBody,
          readErr |-> FALSE, srv |-> r.srv, id |-> r.id]
    ELSE [err |-> Nil, sent |-> 1, status |-> r.status, body |-> r.body,
          readErr |-> (x.net = "readfail"), srv |-> r.srv, id |-> r.id]

\* client.Do(req): {err, status, body, readErr}, the requests sent, and the
\* service afterwards
Do(req, x, pick) ==
    Deliver(req, x, IF x.body = "contract" THEN Serve(req, pick)
                    ELSE Reply(x.status, OffBody(x.body), srv, 0))

\* the exchange of a call whose request is n = {err, req}: nothing is sent
\* when the request could not be built, else client.Do(n.req)
Exchange(n, x, pick) ==
    IF n.err # Nil THEN NotSent(n.err) ELSE Do(n.req, x, pick)

\* json.Unmarshal(body, &QueueStatistics{}): {err, v}
UnmarshalStatistics(body) ==
    IF body.kind # "object" THEN [err |-> JSONError, v |-> ZeroStatistics]
    ELSE IF ~body.stats.present THEN [err |-> Nil, v |-> ZeroStatistics]
    ELSE [err |-> Nil,
          v |-> [Visible |-> body.stats.visible, Delayed |-> body.stats.delayed,
                 Leased |-> body.stats.leased]]

\* UnmarshalMessage without the json tag of LeaseUUID
UnmarshalMessage_NoLease(w) ==
    [queue |-> ZeroQueue, BodyText |-> w.body, BodyType |-> w.type,
     CreateDate |-> w.create_date, VisibleDate |-> w.visible_date,
     ExpireDate |-> w.expire_date, LeaseUUID |-> "",
     LeaseTimeout |-> w.lease_timeout, LeaseDate |-> w.lease_date]

\* one element of "messages" decoded into a Message by its json tags
UnmarshalMessage(w) ==
    [queue |-> ZeroQueue, BodyText |-> w.body, BodyType |-> w.type,
     CreateDate |-> w.create_date, VisibleDate |-> w.visible_date,
     ExpireDate |-> w.expire_date, LeaseUUID |-> w.lease_uuid,
     LeaseTimeout |-> w.lease_timeout, LeaseDate |-> w.lease_date]

\* json.Unmarshal(body, &GetMessagesResponse{}): {err, v}
UnmarshalGetMessagesResponse(body) ==
    IF body.kind # "object" THEN [err |-> JSONError, v |-> <<>>]
    ELSE [err |-> Nil,
          v |-> [i \in 1..Len(body.messages) |-> UnmarshalMessage(body.messages[i])]]

\* json.Unmarshal([]byte(text), v) for a target that takes any JSON value
JSONTexts == {"{}"}
UnmarshalValue(text) == IF text \in JSONTexts THEN Nil ELSE JSONError

-----------------------------------------------------------------------------
(* The operations of the library.  Each is its request, the exchange, and   *)
(* the results computed from the exchange res = {err, status, body,         *)
(* readErr}, in the order of the function's tests; res.err is the error of  *)
(* http.NewRequest or of client.Do.                                          *)

\* http.Client{Timeout: time.Second * 2}, in seconds; 0 is no timeout
ClientTimeout == 2

\* the request of n = {err, req} with the headers and flags set on it
Prepared(n, req) == [err |-> n.err, req |-> IF n.err # Nil THEN NoRequest ELSE req]

\* DeleteStatusError that takes only 200 for a success
DeleteStatusError_Only200(m, status) ==
    IF status # 200 THEN LeaseNotFoundError(m) ELSE Nil

\* DeleteStatusError that never reports a missing lease
DeleteStatusError_NeverNotFound(m, status) == Nil

\* Message.Delete: the result for a response status
DeleteStatusError(m, status) ==
    IF status = 404 THEN LeaseNotFoundError(m) ELSE Nil

\* LeaseURL without the lease identifier
LeaseURL_NoUUID(m) == m.queue.url \o "/leases/"

\* fmt.Sprintf("%s/leases/%s", m.queue.url, m.LeaseUUID)
LeaseURL(m) == m.queue.url \o "/leases/" \o m.LeaseUUID

DeleteRequest(m, n) == Prepared(n, SetClose(SetAuthentication(n.req, m.queue.token)))

DeleteReturn(m, n, res) ==
    [timeout |-> ClientTimeout, req |-> n.req, res |-> res,
     err |-> IF res.err # Nil THEN res.err
             ELSE DeleteStatusError(m, res.status)]

DeleteSend(m, n, x) == DeleteReturn(m, n, Exchange(n, x, 0))

Delete(m, x) ==
    DeleteSend(m, DeleteRequest(m, NewRequest("DELETE", LeaseURL(m), NoBody)), x)

\* Statistics never sets req.Close
StatisticsRequest(q, n) == Prepared(n, SetAuthentication(n.req, q.token))

StatisticsDecoded(un) ==
    IF un.err # Nil THEN [stats |-> ZeroStatistics, err |-> un.err]
    ELSE [stats |-> un.v, err |-> Nil]

StatisticsResult(q, res) ==
    IF res.err # Nil THEN [stats |-> ZeroStatistics, err |-> res.err]
    ELSE IF res.status = 404
    THEN [stats |-> ZeroStatistics, err |-> QueueNotFoundError(q)]
    ELSE IF res.readErr
    \* "return QueueStatistics{}, err": err is client.Do's error, nil here
    THEN [stats |-> ZeroStatistics, err |-> res.err]
    ELSE StatisticsDecoded(UnmarshalStatistics(res.body))

StatisticsReturn(n, res, g) ==
    [timeout |-> ClientTimeout, req |-> n.req, res |-> res,
     stats |-> g.stats, err |-> g.err]

StatisticsReceive(q, n, res) == StatisticsReturn(n, res, StatisticsResult(q, res))

StatisticsSend(q, n, x) == StatisticsReceive(q, n, Exchange(n, x, 0))

Statistics(q, x) ==
    StatisticsSend(q, StatisticsRequest(q, NewRequest("GET", q.url \o "/statistics", NoBody)), x)

\* ExistsResult that turns every error into (false, nil)
ExistsResult_SwallowAll(err) ==
    IF err # Nil THEN [ok |-> FALSE, err |-> Nil] ELSE [ok |-> TRUE, err |-> Nil]

\* Exists: the results for the error of Statistics
ExistsResult(err) ==
    IF err # Nil
    THEN IF err.kind = "QueueNotFound"
         THEN [ok |-> FALSE, err |-> Nil]
         ELSE [ok |-> FALSE, err |-> err]
    ELSE [ok |-> TRUE, err |-> Nil]

ExistsReturn(s, r) ==
    [timeout |-> s.timeout, req |-> s.req, res |-> s.res,
     statErr |-> s.err, ok |-> r.ok, err |-> r.err]

ExistsOf(s) == ExistsReturn(s, ExistsResult(s.err))

Exists(q, x) == ExistsOf(Statistics(q, x))

\* CreateStatusError without the case for 409
CreateStatusError_No409(q, status) ==
    IF status # 200 THEN QueueHTTPError(q, status) ELSE Nil

\* Queue.Create: the result for a response status
CreateStatusError(q, status) ==
    IF status = 409 THEN QueueAlreadyExistsError(q)
    ELSE IF status # 200 THEN QueueHTTPError(q, status)
    ELSE Nil

CreateRequest(q, n) ==
    Prepared(n, SetContentType(SetClose(SetAuthentication(n.req, q.token))))

CreateReturn(q, n, res) ==
    [timeout |-> ClientTimeout, req |-> n.req, res |-> res,
     err |-> IF res.err # Nil THEN res.err
             ELSE CreateStatusError(q, res.status)]

CreateSend(q, n, x) == CreateReturn(q, n, Exchange(n, x, 0))

Create(q, x) ==
    CreateSend(q,
               CreateRequest(q, NewRequest("POST", q.Endpoint \o "/queues",
                                           MarshalCreateQueueRequest(q.Name))),
               x)

\* GetResult with the wrong error for an empty batch
GetResult_WrongError(q, messages) ==
    IF Len(messages) = 1
    THEN [msg |-> [messages[1] EXCEPT !.queue = q], err |-> Nil]
    ELSE [msg |-> ZeroMessage, err |-> QueueNotFoundError(q)]

\* Queue.Get: the results for the decoded batch
GetResult(q, messages) ==
    IF Len(messages) = 1
    THEN [msg |-> [messages[1] EXCEPT !.queue = q], err |-> Nil]
    ELSE [msg |-> ZeroMessage, err |-> QueueEmptyError(q)]

\* GetRequest that tells the service of the Retry option
GetRequest_SendsRetry(q, options, n) ==
    Prepared(n, [SetClose(SetAuthentication(n.req, q.token))
                     EXCEPT !.query = GetQuery(options) \cup
                                (IF ~options.nil /\ options.Retry
                                 THEN {<<"retry", "true">>} ELSE {})])

\* Queue.Get: the request with its header, its Close flag and its query
GetRequest(q, options, n) ==
    Prepared(n, [SetClose(SetAuthentication(n.req, q.token))
                     EXCEPT !.query = GetQuery(options)])

GetDecoded(q, un) ==
    IF un.err # Nil THEN [msg |-> ZeroMessage, err |-> un.err]
    ELSE GetResult(q, un.v)

GetResponse(q, res) ==
    IF res.err # Nil THEN [msg |-> ZeroMessage, err |-> res.err]
    ELSE IF res.status = 404
    THEN [msg |-> ZeroMessage, err |-> QueueNotFoundError(q)]
    ELSE IF res.readErr
    \* "return Message{}, err": err is client.Do's error, nil here
    THEN [msg |-> ZeroMessage, err |-> res.err]
    ELSE GetDecoded(q, UnmarshalGetMessagesResponse(res.body))

GetReturn(n, res, g) ==
    [timeout |-> 0, req |-> n.req, res |-> res, msg |-> g.msg, err |-> g.err]

GetReceive(q, n, res) == GetReturn(n, res, GetResponse(q, res))

\* an exchange repeated once after a failure of the transport
Resent(res) ==
    IF res.sent = 1 /\ res.err = TransportError THEN [res EXCEPT !.sent = 2] ELSE res

\* GetSend that tries again after a failure of the transport
GetSend_Retrying(q, n, x, pick) == GetReceive(q, n, Resent(Exchange(n, x, pick)))

\* Queue.Get: one client.Do, and the results of its exchange
GetSend(q, n, x, pick) == GetReceive(q, n, Exchange(n, x, pick))

Get(q, options, x, pick) ==
    GetSend(q, GetRequest(q, options, NewRequest("GET", q.url, NoBody)), x, pick)

GetValueOf(g) ==
    [timeout |-> g.timeout, req |-> g.req, res |-> g.res, getErr |-> g.err,
     msg |-> g.msg,
     err |-> IF g.err # Nil THEN g.err ELSE UnmarshalValue(g.msg.BodyText)]

GetValue(q, options, x, pick) == GetValueOf(Get(q, options, x, pick))

\* PutStatusError that takes every 2xx status for a success
PutStatusError_Accept2xx(q, status) ==
    IF status = 404 THEN QueueNotFoundError(q)
    ELSE IF status \div 100 # 2 THEN QueueHTTPError(q, status)
    ELSE Nil

\* Queue.Put: the result for a response status
PutStatusError(q, status) ==
    IF status = 404 THEN QueueNotFoundError(q)
    ELSE IF status # 200 THEN QueueHTTPError(q, status)
    ELSE Nil

PutRequest(q, n) ==
    Prepared(n, SetContentType(SetClose(SetAuthentication(n.req, q.token))))

PutReturn(q, n, res) ==
    [timeout |-> 0, req |-> n.req, res |-> res,
     err |-> IF res.err # Nil THEN res.err
             ELSE PutStatusError(q, res.status)]

PutSend(q, n, x) == PutReturn(q, n, Exchange(n, x, 0))

Put(q, bodyText, bodyType, x) ==
    PutSend(q,
            PutRequest(q, NewRequest("POST", q.url,
                                     MarshalPutMessageRequest(bodyText, bodyType))),
            x)

-----------------------------------------------------------------------------
(* The state machine: one action per operation of the library, and the     *)
(* service letting a lease expire.                                          *)

NoPut == [set |-> FALSE, bodyText |-> "", bodyType |-> ""]

\* whether the service has the queue q addresses, and its visible messages
Existing(q) == \E n \in srv.queues : q.url = QueueURL(n)
Visible(q) == UNION {Avail(n) : n \in {k \in srv.queues : q.url = QueueURL(k)}}

\* the record of a call: its inputs, what the service looked like before it
\* (existed, avail, valid, gone), whether the same had been done before
\* (again), the defaults of everything it returns (err, msg, stats, ok), the
\* error of the operation it calls (inner) and the Message GetValue got from
\* Get and does not return (taken)
Call(op, q, x) ==
    [op |-> op, q |-> q, options |-> NilOptions, bodyText |-> "", bodyType |-> "",
     m |-> ZeroMessage, x |-> x,
     existed |-> Existing(q), avail |-> Visible(q),
     valid |-> FALSE, again |-> FALSE, gone |-> hist.delGot,
     timeout |-> 0, req |-> NoRequest, sent |-> 0, status |-> 0, body |-> NoBody,
     id |-> 0, err |-> Nil, inner |-> Nil, msg |-> ZeroMessage,
     taken |-> ZeroMessage, stats |-> ZeroStatistics, ok |-> FALSE]

\* the fields every operation fills in
Done(c, r) ==
    [c EXCEPT !.x = IF r.res.sent = 0 THEN Contract("ok") ELSE @,
              !.timeout = r.timeout, !.req = r.req, !.sent = r.res.sent,
              !.status = r.res.status, !.body = r.res.body, !.id = r.res.id,
              !.err = r.err]

\* no call in progress: the caller is between two calls
NoCall ==
    [op |-> "none", q |-> ZeroQueue, options |-> NilOptions,
     bodyText |-> "", bodyType |-> "", m |-> ZeroMessage,
     x |-> Contract("ok"), existed |-> FALSE, avail |-> {},
     valid |-> FALSE, again |-> FALSE, gone |-> {},
     timeout |-> 0, req |-> NoRequest, sent |-> 0, status |-> 0,
     body |-> NoBody, id |-> 0, err |-> Nil, inner |-> Nil,
     msg |-> ZeroMessage, taken |-> ZeroMessage, stats |-> ZeroStatistics,
     ok |-> FALSE]

Idle == last.op = "none"

Init ==
    /\ qs = [h \in Handles |-> IF h = "good" THEN NewQueue(Endpoint, "a", "s3")
                                 ELSE NewQueue(BadEndpoint, "a", "")]
    /\ srv = [queues |-> {}, msgs |-> [i \in MsgIds |-> FreeMsg], leases |-> 0]
    /\ held = {}
    /\ hist = [put |-> [i \in MsgIds |-> NoPut], created |-> {},
               acked |-> {}, delGot |-> {}, delLeases |-> {}]
    /\ last = NoCall

CreateCall(n, x) ==
    LET r == Create(qs[n], x)
    IN /\ Idle
       /\ last' = [Done(Call("Create", qs[n], x), r) EXCEPT !.again = (n \in hist.created)]
       /\ srv' = r.res.srv
       /\ hist' = [hist EXCEPT !.created = IF r.err = Nil THEN @ \cup {n} ELSE @]
       /\ UNCHANGED <<qs, held>>

StatisticsCall(n, x) ==
    LET r == Statistics(qs[n], x)
    IN /\ Idle
       /\ last' = [Done(Call("Statistics", qs[n], x), r) EXCEPT !.stats = r.stats]
       /\ srv' = r.res.srv
       /\ UNCHANGED <<qs, held, hist>>

ExistsCall(n, x) ==
    LET r == Exists(qs[n], x)
    IN /\ Idle
       /\ last' = [Done(Call("Exists", qs[n], x), r)
                       EXCEPT !.ok = r.ok, !.inner = r.statErr]
       /\ srv' = r.res.srv
       /\ UNCHANGED <<qs, held, hist>>

PutCall(n, bodyText, bodyType, x) ==
    LET r == Put(qs[n], bodyText, bodyType, x)
    IN /\ FreeIds # {}
       /\ Idle
       /\ last' = [Done(Call("Put", qs[n], x), r)
                       EXCEPT !.bodyText = bodyText, !.bodyType = bodyType]
       /\ srv' = r.res.srv
       /\ hist' = IF r.res.id = 0 THEN hist
                  ELSE [hist EXCEPT !.put[r.res.id] =
                            [set |-> TRUE, bodyText |-> bodyText, bodyType |-> bodyType]]
       /\ UNCHANGED <<qs, held>>

Picks(n) == IF Visible(qs[n]) = {} THEN {0} ELSE Visible(qs[n])

\* the options and outcomes tried together: every option on a faultless
\* exchange, every outcome without options and with Retry alone, and every
\* failure of the network with Delete alone
DeleteOptions == [nil |-> FALSE, Wait |-> 0, Delete |-> TRUE, Retry |-> FALSE]
RetryOptions == [nil |-> FALSE, Wait |-> 0, Delete |-> FALSE, Retry |-> TRUE]
GetInputs ==
    (Options \X {Contract("ok")})
    \cup ({NilOptions} \X Outcomes)
    \cup ({DeleteOptions} \X {x \in Outcomes : x.body = "contract"})
    \cup ({RetryOptions} \X Outcomes)
\* for GetValue: the options without Wait on a faultless exchange, and every
\* outcome without options and with Retry alone
GetValueInputs ==
    ([nil : {FALSE}, Wait : {0}, Delete : BOOLEAN, Retry : BOOLEAN] \X {Contract("ok")})
    \cup ({NilOptions} \X Outcomes)
    \cup ({RetryOptions} \X Outcomes)

GetCall(n, options, x, pick) ==
    LET r == Get(qs[n], options, x, pick)
        deleting == ~options.nil /\ options.Delete
    IN /\ srv.leases < MaxLeases
       /\ Idle
       /\ last' = [Done(Call("Get", qs[n], x), r)
                       EXCEPT !.options = options, !.msg = r.msg]
       /\ srv' = r.res.srv
       /\ held' = IF r.err = Nil /\ r.msg # ZeroMessage THEN held \cup {r.msg} ELSE held
       /\ hist' = [hist EXCEPT
                      !.delGot = IF deleting /\ r.res.id # 0 THEN @ \cup {r.res.id} ELSE @,
                      !.delLeases = IF deleting /\ r.err = Nil /\ x = Contract("ok")
                                    THEN @ \cup {r.msg.LeaseUUID} ELSE @]
       /\ UNCHANGED qs

GetValueCall(n, options, x, pick) ==
    LET r == GetValue(qs[n], options, x, pick)
    IN /\ srv.leases < MaxLeases
       /\ Idle
       /\ last' = [Done(Call("GetValue", qs[n], x), r)
                       EXCEPT !.options = options, !.inner = r.getErr, !.taken = r.msg]
       /\ srv' = r.res.srv
       /\ UNCHANGED <<qs, held, hist>>

DeleteCall(m, x) ==
    LET r == Delete(m, x)
        valid == LeaseRoute(m.queue.url \o "/leases/" \o m.LeaseUUID) # {}
    IN /\ Idle
       /\ last' = [Done(Call("Delete", m.queue, x), r)
                       EXCEPT !.m = m, !.valid = valid,
                              !.again = (m.LeaseUUID \in hist.acked)]
       /\ srv' = r.res.srv
       /\ hist' = IF valid /\ x = Contract("ok")
                  THEN [hist EXCEPT !.acked = @ \cup {m.LeaseUUID}]
                  ELSE hist
       /\ UNCHANGED <<qs, held>>

\* the service: the lease on message i times out (between two calls: a call
\* is one atomic exchange with the service)
Expire(i) ==
    /\ Idle
    /\ srv.msgs[i].state = "leased"
    /\ srv' = [srv EXCEPT !.msgs[i].state = "visible", !.msgs[i].lease = ""]
    /\ UNCHANGED <<qs, held, last, hist>>

\* the call returns: the caller takes the results and is free to call again
Return ==
    /\ ~Idle
    /\ last' = NoCall
    /\ UNCHANGED <<qs, srv, held, hist>>

Next ==
    \/ \E n \in Handles, x \in StatusOutcomes : CreateCall(n, x)
    \/ \E n \in Handles, x \in Outcomes : StatisticsCall(n, x)
    \/ \E n \in Handles, x \in Outcomes : ExistsCall(n, x)
    \/ \E n \in Handles, t \in Texts, ty \in Types, x \in StatusOutcomes : PutCall(n, t, ty, x)
    \/ \E n \in Handles, i \in GetInputs : \E p \in Picks(n) : GetCall(n, i[1], i[2], p)
    \/ \E n \in Handles, i \in GetValueInputs : \E p \in Picks(n) : GetValueCall(n, i[1], i[2], p)
    \/ \E m \in held \cup {ZeroMessage}, x \in StatusOutcomes : DeleteCall(m, x)
    \/ \E i \in MsgIds : Expire(i)
    \/ Return

Spec == Init /\ [][Next]_vars

-----------------------------------------------------------------------------
(* Properties *)

\* the request was sent, the service answered by its contract and the
\* response arrived whole
Clean == last.sent = 1 /\ last.x = Contract("ok")
\* a response arrived (whatever its status)
Responded == last.sent = 1 /\ last.x.net \in {"ok", "readfail"}
NoDelete == last.options.nil \/ ~last.options.Delete

\* C1: Get tells an empty queue from a missing one.  On a queue the service
\* has, Get never returns QueueNotFound, and returns QueueEmpty when no
\* message is visible; on a queue the service does not have (status 404) Get
\* never returns QueueEmpty, and returns QueueNotFound.
C1_GetEmptyVersusMissing ==
    (last.op = "Get" /\ last.sent = 1 /\ last.x.body = "contract") =>
        /\ last.existed => last.err.kind # "QueueNotFound"
        /\ ~last.existed => last.err.kind # "QueueEmpty"
        /\ (Clean /\ last.existed /\ last.avail = {}) =>
               last.err = QueueEmptyError(last.q)
        /\ (Responded /\ ~last.existed) =>
               last.status = 404 /\ last.err = QueueNotFoundError(last.q)

C1_Witness ==
    /\ last.op = "Get" /\ Clean /\ last.existed /\ last.avail = {}
    /\ last.err.kind = "QueueEmpty"

\* C2: round trip.  When the only visible message of an existing queue is one
\* that was Put, a Get without the delete option on a faultless exchange
\* returns no error and a Message with the body text and type that were
\* passed to Put and a non-empty lease identifier.
C2_PutGetRoundTrip ==
    \A i \in MsgIds :
        (last.op = "Get" /\ Clean /\ NoDelete /\ last.existed
            /\ last.avail = {i} /\ hist.put[i].set) =>
            /\ last.err = Nil
            /\ last.msg.BodyText = hist.put[i].bodyText
            /\ last.msg.BodyType = hist.put[i].bodyType
            /\ last.msg.LeaseUUID # ""

C2_Witness ==
    /\ last.op = "Get" /\ Clean /\ NoDelete /\ Cardinality(last.avail) = 1
    /\ last.err = Nil /\ last.msg.BodyText = "x" /\ last.msg.BodyType = "t"
    /\ last.msg.LeaseUUID # ""

\* C3: Delete acknowledges at most once.  On faultless exchanges, a Delete on
\* a Message whose lease is still valid returns no error, and a Delete on a
\* Message that such a Delete has already addressed returns LeaseNotFound.
C3_DeleteTwice ==
    (last.op = "Delete" /\ Clean) =>
        /\ last.valid => last.err = Nil
        /\ last.again => last.err = LeaseNotFoundError(last.m)

C3_Witness ==
    /\ last.op = "Delete" /\ Clean /\ last.again
    /\ last.err.kind = "LeaseNotFound"

\* C4: a Message that Get returned under Delete=true is gone from the
\* service.  A later Delete on it returns LeaseNotFound, and no later Get or
\* GetValue is served that message.
C4_DeletingGetRemoves ==
    /\ (last.op = "Delete" /\ Clean /\ last.m.LeaseUUID \in hist.delLeases) =>
           last.err = LeaseNotFoundError(last.m)
    /\ (last.op \in {"Get", "GetValue"} /\ last.id # 0) => last.id \notin last.gone

C4_Witness ==
    /\ last.op = "Delete" /\ Clean /\ last.m.LeaseUUID \in hist.delLeases
    /\ last.err.kind = "LeaseNotFound"

\* C5: every Message that Get returns with a nil error has a non-empty lease
\* identifier.
C5_GetLeaseNonEmpty ==
    (last.op = "Get" /\ last.err = Nil) => last.msg.LeaseUUID # ""

\* C6: a Create on a queue that an earlier Create has already created with
\* success is answered 409 and returns QueueAlreadyExists.
C6_CreateTwice ==
    (last.op = "Create" /\ Clean /\ last.again) =>
        last.status = 409 /\ last.err = QueueAlreadyExistsError(last.q)

C6_Witness ==
    /\ last.op = "Create" /\ Clean /\ last.again
    /\ last.err.kind = "QueueAlreadyExists"

\* C7: the status mapping of Create and Put.  Each returns no error exactly
\* when a response with status 200 arrived; on a response, Create returns
\* QueueAlreadyExists exactly on 409, Put returns QueueNotFound exactly on
\* 404, and every other status gives a QueueHTTPError carrying that status.
C7_CreatePutStatus ==
    (last.op \in {"Create", "Put"}) =>
        LET special == IF last.op = "Create" THEN 409 ELSE 404
            kind == IF last.op = "Create" THEN "QueueAlreadyExists" ELSE "QueueNotFound"
        IN /\ last.err = Nil <=> (Responded /\ last.status = 200)
           /\ Responded =>
                /\ last.err.kind = kind <=> last.status = special
                /\ last.status \notin {200, special} =>
                       last.err = QueueHTTPError(last.q, last.status)

C7_Witness ==
    /\ last.op = "Put" /\ Responded /\ last.status = 409
    /\ last.err.kind = "QueueHTTPError" /\ last.err.StatusCode = 409

\* C8: Exists follows Statistics.  It returns (false, nil) exactly when
\* Statistics signals QueueNotFound, (false, err) with the same err on any
\* other error of Statistics, and (true, nil) when Statistics has no error.
C8_ExistsFollowsStatistics ==
    (last.op = "Exists") =>
        /\ (last.ok = FALSE /\ last.err = Nil) <=> last.inner.kind = "QueueNotFound"
        /\ (last.inner # Nil /\ last.inner.kind # "QueueNotFound") =>
               last.ok = FALSE /\ last.err = last.inner
        /\ last.inner = Nil => last.ok = TRUE /\ last.err = Nil

C8_Witness ==
    /\ last.op = "Exists" /\ last.inner.kind = "QueueNotFound"
    /\ last.ok = FALSE /\ last.err = Nil

\* C9: Delete takes every status but 404 for a success.  When a response
\* arrives, Delete returns LeaseNotFound if and only if the status is 404 and
\* returns no error on every other status.
C9_DeleteStatus ==
    (last.op = "Delete" /\ Responded) =>
        /\ last.err.kind = "LeaseNotFound" <=> last.status = 404
        /\ last.status # 404 => last.err = Nil

C9_Witness ==
    /\ last.op = "Delete" /\ Responded /\ last.status = 500 /\ last.err = Nil

\* a step of the call failed: the request could not be built, the exchange
\* failed, the body that is read could not be read or decoded, or the
\* message body GetValue decodes is not JSON
Reads == last.op \in {"Statistics", "Exists", "Get", "GetValue"}
NotFoundAnswer == Responded /\ last.status = 404
StepFailed ==
    \/ last.op # "none" /\ last.req = NoRequest
    \/ last.op # "none" /\ last.req # NoRequest /\ last.sent = 0
    \/ last.sent = 1 /\ last.x.net \in {"refused", "lost"}
    \/ Reads /\ Responded /\ ~NotFoundAnswer /\ last.x.net = "readfail"
    \/ Reads /\ Responded /\ ~NotFoundAnswer /\ last.body.kind = "malformed"
    \/ last.op = "GetValue" /\ last.inner = Nil /\ last.taken.BodyText \notin JSONTexts

\* C10: no error is swallowed.  Whenever a step of Statistics, Exists,
\* Create, Put, Get, GetValue or Delete fails, the call returns a non-nil
\* error.
C10_NoErrorSwallowed ==
    StepFailed => last.err # Nil

\* GetValue got a message from Get and its body text is not JSON
GotNonJSON ==
    /\ last.op = "GetValue" /\ last.inner = Nil
    /\ last.taken # ZeroMessage /\ last.taken.BodyText \notin JSONTexts

\* the decode error of GetValue is none of the retrieval errors
C11_DecodeErrorDistinct ==
    GotNonJSON =>
        last.err = JSONError /\ last.err.kind \notin {"QueueNotFound", "QueueEmpty"}

\* C11: when GetValue retrieves a message whose body is not valid JSON it
\* returns a decode error that is neither QueueNotFound nor QueueEmpty, and
\* the Message is not lost: the caller has it, with its lease identifier,
\* and can Delete it.
C11_GetValueKeepsMessage ==
    /\ C11_DecodeErrorDistinct
    /\ GotNonJSON => last.taken \in held

\* the request of the call was constructed (http.NewRequest returned no error)
Built == last.req # NoRequest
\* ... and client.Do can send it: its URL has a scheme and a host
Sendable == Built /\ last.req.url \notin UnsupportedURLs

Stale(m) == LeaseRoute(LeaseURL(m)) = {}
\* the Messages the caller holds whose lease the service still has
ValidHeld(i) == {h \in held : i \in LeaseRoute(LeaseURL(h))}

\* a Get without the delete option that returns a Message returns it under
\* the lease the service now has for that message, which is the lease of no
\* other Message the caller holds
NewLease ==
    (last.op = "Get" /\ Clean /\ NoDelete /\ last.err = Nil) =>
        /\ last.id # 0 /\ last.id \in last.avail
        /\ srv.msgs[last.id].state = "leased"
        /\ srv.msgs[last.id].lease = last.msg.LeaseUUID
        /\ \A h \in held \ {last.msg} : h.LeaseUUID # last.msg.LeaseUUID

\* a Delete on a Message whose lease the service no longer has changes
\* nothing on the service, and returns LeaseNotFound when the exchange is
\* faultless
StaleDeleteKeeps ==
    last'.op = "Delete" =>
        \A m \in held, x \in StatusOutcomes :
            (Stale(m) /\ DeleteCall(m, x)) =>
                /\ srv' = srv
                /\ x = Contract("ok") =>
                       last'.status = 404 /\ last'.err = LeaseNotFoundError(m)

\* C13: a Message obtained by Get without delete and not deleted before its
\* lease times out: the message is visible again and a later Get returns it
\* under a new lease; Delete on the old Message returns LeaseNotFound and
\* neither removes the message nor releases the newer lease.
C13_ExpiredLease == []NewLease /\ [][StaleDeleteKeeps]_vars

C13_Witness ==
    /\ last.op = "Delete" /\ Clean /\ last.err.kind = "LeaseNotFound"
    /\ last.m.LeaseUUID \notin (hist.acked \cup hist.delLeases)
    /\ \E i \in MsgIds :
          /\ srv.msgs[i].state = "leased"
          /\ srv.msgs[i].lease # last.m.LeaseUUID
          /\ srv.msgs[i].body = last.m.BodyText
          /\ \E h \in held : h.LeaseUUID = srv.msgs[i].lease

C15_CloseButStatistics ==
    (Built /\ last.op \notin {"Statistics", "Exists"}) => last.req.Close

\* C15: every request the client sends, for each of Create, Statistics (and
\* so Exists), Put, Get and Delete, has req.Close true.
C15_EveryRequestCloses ==
    (last.op # "none" /\ last.sent = 1) => last.req.Close

\* the url of every Queue the caller built is {endpoint}/queues/{name}
C16_URLFixed ==
    \A h \in Handles : qs[h].url = qs[h].Endpoint \o "/queues/" \o qs[h].Name

\* a Message that Get returns from a response that arrived whole is bound to
\* the Queue of the call, and Delete on a Message the caller holds addresses
\* the lease under the url of that Queue
C16_BoundWhenClean ==
    /\ (last.op = "Get" /\ Clean /\ last.err = Nil) => last.msg.queue = last.q
    /\ (last.op = "Delete" /\ last.m \in held) =>
           /\ \E h \in Handles : last.m.queue = qs[h]
           /\ last.req.method = "DELETE"
           /\ last.req.url =
                  last.m.queue.Endpoint \o "/queues/" \o last.m.queue.Name
                      \o "/leases/" \o last.m.LeaseUUID

\* C16: the url of a Queue built by NewQueue is endpoint + "/queues/" + name
\* in every state, and the Queue bound inside every Message Get returns is
\* the Queue Get was called on, so that Delete addresses
\* {queueURL}/leases/{leaseUUID} of that queue.
C16_QueueBound ==
    /\ C16_URLFixed
    /\ C16_BoundWhenClean
    /\ (last.op = "Get" /\ last.err = Nil) => last.msg.queue = last.q

\* the decoded batch of a Get whose response was read: status not 404, body
\* read whole and a JSON object
Batch == last.body.messages
BatchRead ==
    /\ last.op = "Get" /\ last.sent = 1 /\ last.x.net = "ok"
    /\ last.status # 404 /\ last.body.kind = "object"

\* Get returns a Message exactly when the batch holds one message, and
\* QueueEmpty on every other batch
C17_OneOrEmpty ==
    BatchRead =>
        /\ Len(Batch) = 1 => last.err = Nil /\ last.msg.LeaseUUID = Batch[1].lease_uuid
        /\ Len(Batch) # 1 => last.err = QueueEmptyError(last.q) /\ last.msg = ZeroMessage

\* C17: a Get response (status not 404) carrying more than one message is
\* not treated as an error: Get returns QueueEmpty only when the batch holds
\* zero messages.
C17_EmptyOnlyOnZero ==
    BatchRead =>
        /\ last.err.kind = "QueueEmpty" => Len(Batch) = 0
        /\ Len(Batch) > 1 => last.err = Nil

\* the query of a Get or GetValue whose request was constructed
QueryOf == last.req.query
WaitValues == {p[2] : p \in {r \in QueryOf : r[1] = "wait_time"}}
GetBuilt == last.op \in {"Get", "GetValue"} /\ Built

\* C18 as stated: the encoding of the query, and a wait_time that is never 0.
C18_WaitNeverZero ==
    GetBuilt =>
        /\ <<"delete", "true">> \in QueryOf <=> (~last.options.nil /\ last.options.Delete)
        /\ WaitValues # {} => last.options.Wait # 0
        /\ last.options.nil => QueryOf = {}
        /\ "0" \notin WaitValues

\* C18: the query of Get.  delete=true is sent if and only if options is not
\* nil and options.Delete is true; wait_time is sent if and only if options
\* is not nil and options.Wait is positive, with the whole seconds of Wait
\* (rounded toward zero) as its value, which is 0 for a Wait under one
\* second; nothing else is sent, and nothing at all with nil options.
C18_QueryEncoding ==
    GetBuilt =>
        /\ <<"delete", "true">> \in QueryOf <=> (~last.options.nil /\ last.options.Delete)
        /\ WaitValues # {} <=> (~last.options.nil /\ last.options.Wait > 0)
        /\ \A p \in QueryOf : p[1] \in {"delete", "wait_time"}
        /\ last.options.nil => QueryOf = {}
        /\ last.options.Wait = 1500000000 => WaitValues \subseteq {"1"}
        /\ last.options.Wait = 500000000 => WaitValues \subseteq {"0"}

C18_Witness ==
    /\ last.op = "Get" /\ last.sent = 1 /\ last.options.Wait = 500000000
    /\ last.options.Delete /\ QueryOf = {<<"delete", "true">>, <<"wait_time", "0">>}

\* the options with the other value of Retry
FlipRetry(options) == [options EXCEPT !.Retry = ~@]

\* the inputs of Get and GetValue that set Retry
RetryInputs == {i \in GetInputs \cup GetValueInputs : ~i[1].nil /\ i[1].Retry}

\* C19: Retry is inert.  In every state where a call can start, for every
\* Queue, options and answer of the service, Get and GetValue with the other
\* value of Retry send the same request (method, URL, query, header) and
\* return the same Message and error, and leave the service the same.
C19_RetryInert ==
    Idle =>
        \A n \in Handles, i \in RetryInputs : \A p \in Picks(n) :
            /\ Get(qs[n], FlipRetry(i[1]), i[2], p) = Get(qs[n], i[1], i[2], p)
            /\ GetValue(qs[n], FlipRetry(i[1]), i[2], p) = GetValue(qs[n], i[1], i[2], p)

C19_Witness ==
    /\ last.op = "Get" /\ ~last.options.nil /\ last.options.Retry
    /\ ~last.options.Delete /\ last.options.Wait = 0
    /\ Clean /\ last.err = Nil /\ last.msg.LeaseUUID # ""
    /\ last.req.query = {} /\ last.req.header = {<<"Authentication", "token s3">>}

\* on an exchange where the service answers by its contract and the response
\* arrives whole, Exists returns true exactly when the service has the queue
C20_TrueOnContract ==
    (last.op = "Exists" /\ Clean) => (last.ok <=> last.existed) /\ last.err = Nil

\* C20: Exists returns (true, nil) only when the queue exists on the
\* service: it never returns true unless the statistics request was answered
\* with a success status and the body of the answer was read.
C20_ExistsOnlyOnSuccess ==
    (last.op = "Exists" /\ last.ok) =>
        /\ last.sent = 1 /\ last.x.net = "ok"
        /\ last.status \in 200..299

====
